---- MODULE Spec2Model ----
(***************************************************************************)
(* Move selection of the chess trainer's GreedyExplorationAI: the game     *)
(* wrapper (src/backend/src/chess/game.py), the simulation sandbox         *)
(* (src/backend/src/chess/simulation.py), the greedy single-ply ranker     *)
(* (src/backend/models/greedy/greedy_ai.py) and the rollout driver and     *)
(* selector (src/backend/models/greedy/greedy_exploration.py).             *)
(*                                                                         *)
(* The rules engine (python-chess) is external.  It is represented by a    *)
(* finite table of positions: for each position the side to move, the      *)
(* piece placement, and the engine's answers to the queries the code       *)
(* makes (legal moves in enumeration order, check, insufficient material,  *)
(* attacker counts).  Everything the repository's code computes from       *)
(* those answers is computed here the way the code computes it.            *)
(***************************************************************************)
EXTENDS Integers, Sequences, FiniteSets, TLC

\* ------------------------------------------------------------------------
\* Bounds of the model (the program's defaults are 15, 4, 150 and 3).
\* ------------------------------------------------------------------------
\* exploration_size: breadth of the candidate pool
ExplorationSize == 3
\* exploration_depth: plies played by Simulation.run in one rollout
ExplorationDepth == 2
\* exploration_sample: rollout samples per candidate
ExplorationSample == 2
\* the values line 28 of greedy_exploration.py is given: one is odd, one even
ConfiguredSamples == {ExplorationSample - 1, ExplorationSample}
\* choice_exploration: topN handed to the agents inside a rollout
ChoiceExploration == 3
\* the values of exploration_size a selector is constructed with
ExplorationSizes == {0 - 1, 0, ExplorationSize}
\* moves applied to the live game in one behaviour
MaxLivePlies == 4
\* rules-engine faults injected into the rollouts of one decision
MaxFaults == 1
\* the largest topN a stand-alone GreedyAI is asked with
MaxTopN == 4
\* moves applied by the client of a stand-alone Sandbox
MaxSandboxMoves == 2
\* full-move counter of the opening FEN
StartFullmove == 14
\* calls of play_engine_move and rewind on a game between two engines
MaxMatchCalls == 4

\* ------------------------------------------------------------------------
\* Values of python-chess and of Python that the code compares.
\* ------------------------------------------------------------------------
WHITE == "white"
BLACK == "black"
None == "None"
PyFalse == "False"
PyTrue == "True"
Colors == {WHITE, BLACK}
Not(c) == IF c = WHITE THEN BLACK ELSE WHITE
PieceTypes == {"P", "N", "B", "R", "Q", "K"}

\* Python truthiness of the values Game.draw takes (None, a bool, a reason)
Truthy(v) == v \notin {None, PyFalse}
PyBool(b) == IF b THEN PyTrue ELSE PyFalse

Sq(file, rank) == file + 8 * rank
square_file(sq) == sq % 8
square_rank(sq) == sq \div 8
Abs(x) == IF x < 0 THEN 0 - x ELSE x

\* Game.BB_EDGE, as membership: ranks 1 and 8, files a and h
BB_EDGE(s) == square_rank(s) \in {0, 7} \/ square_file(s) \in {0, 7}
\* chess.BB_CENTER, as membership: d4, e4, d5, e5
BB_CENTER(s) == square_file(s) \in {3, 4} /\ square_rank(s) \in {3, 4}

\* ------------------------------------------------------------------------
\* The rules engine's table.
\* ------------------------------------------------------------------------
Pc(c, t) == [color |-> c, type |-> t]
\* a move with the engine's answers about it in the position it is legal in:
\*   atkTo   = len(board.attackers(not color, to_square))
\*   defTo   = len(board.attackers(color, to_square))
\*   atkFrom = len(board.attackers(not color, from_square))
\*   reach   = len(board.attacks(to_square))
Mv(f, t, target, atkTo, defTo, atkFrom) ==
    [from |-> f, to |-> t, promotion |-> None, target |-> target,
     atkTo |-> atkTo, defTo |-> defTo, atkFrom |-> atkFrom, reach |-> 0]
Position(turn, check, insufficient, pieces, moves) ==
    [turn |-> turn, check |-> check, insufficient |-> insufficient,
     pieces |-> pieces, castling |-> {}, moves |-> moves]

\* King and queen against king.  Position 1 is the white selector's opening
\* position, position 13 the black selector's.  Where white has its queen,
\* every move of the black king is listed; of the other moves those that the
\* games below are played with.
PositionTable(p) ==
    LET g6 == Sq(6, 5)
        f6 == Sq(5, 5)
        c4 == Sq(2, 3)
        c3 == Sq(2, 2)
        c8 == Sq(2, 7)
        c2 == Sq(2, 1)
        e2 == Sq(4, 1)
        f7 == Sq(5, 6)
        f8 == Sq(5, 7)
        g7 == Sq(6, 6)
        g8 == Sq(6, 7)
        h8 == Sq(7, 7)
        WK == Pc(WHITE, "K")
        WQ == Pc(WHITE, "Q")
        BK == Pc(BLACK, "K")
    IN
    \* 1: Kg6 Qc4 / Kh8, white to move
    CASE p = 1 ->
        Position(WHITE, FALSE, FALSE, (g6 :> WK) @@ (c4 :> WQ) @@ (h8 :> BK),
        << Mv(c4, f7, 2, 0, 2, 0), Mv(c4, g8, 3, 1, 1, 0), Mv(c4, c3, 5, 0, 1, 0) >>)
    \* 2: Kg6 Qf7 / Kh8, black to move: stalemate
      [] p = 2 ->
        Position(BLACK, FALSE, FALSE, (g6 :> WK) @@ (f7 :> WQ) @@ (h8 :> BK), << >>)
    \* 3: Kg6 Qg8+ / Kh8, black to move
      [] p = 3 ->
        Position(BLACK, TRUE, FALSE, (g6 :> WK) @@ (g8 :> WQ) @@ (h8 :> BK),
        << Mv(h8, g8, 4, 0, 1, 1) >>)
    \* 4: Kg6 / Kg8, white to move: insufficient material
      [] p = 4 ->
        Position(WHITE, FALSE, TRUE, (g6 :> WK) @@ (g8 :> BK),
        << Mv(g6, f6, 9, 0, 1, 0) >>)
    \* 5: Kg6 Qc3+ / Kh8, black to move
      [] p = 5 ->
        Position(BLACK, TRUE, FALSE, (g6 :> WK) @@ (c3 :> WQ) @@ (h8 :> BK),
        << Mv(h8, g8, 6, 0, 1, 1) >>)
    \* 6: Kg6 Qc3 / Kg8, white to move
      [] p = 6 ->
        Position(WHITE, FALSE, FALSE, (g6 :> WK) @@ (c3 :> WQ) @@ (g8 :> BK),
        << Mv(c3, c8, 7, 0, 1, 0), Mv(c3, g7, 8, 1, 2, 0), Mv(c3, c4, 13, 0, 1, 0) >>)
    \* 7: Kg6 Qc8# / Kg8
      [] p = 7 ->
        Position(BLACK, TRUE, FALSE, (g6 :> WK) @@ (c8 :> WQ) @@ (g8 :> BK), << >>)
    \* 8: Kg6 Qg7# / Kg8
      [] p = 8 ->
        Position(BLACK, TRUE, FALSE, (g6 :> WK) @@ (g7 :> WQ) @@ (g8 :> BK), << >>)
    \* 9: Kf6 / Kg8, black to move: insufficient material
      [] p = 9 ->
        Position(BLACK, FALSE, TRUE, (f6 :> WK) @@ (g8 :> BK),
        << Mv(g8, h8, 10, 0, 1, 0) >>)
    \* 10: Kf6 / Kh8, white to move: insufficient material
      [] p = 10 ->
        Position(WHITE, FALSE, TRUE, (f6 :> WK) @@ (h8 :> BK),
        << Mv(f6, g6, 11, 0, 1, 0) >>)
    \* 11: Kg6 / Kh8, black to move: insufficient material
      [] p = 11 ->
        Position(BLACK, FALSE, TRUE, (g6 :> WK) @@ (h8 :> BK),
        << Mv(h8, g8, 4, 0, 1, 0) >>)
    \* 12: Kg6 Qf7# / Kf8
      [] p = 12 ->
        Position(BLACK, TRUE, FALSE, (g6 :> WK) @@ (f7 :> WQ) @@ (f8 :> BK), << >>)
    \* 13: Kg6 Qc4+ / Kg8, black to move
      [] p = 13 ->
        Position(BLACK, TRUE, FALSE, (g6 :> WK) @@ (c4 :> WQ) @@ (g8 :> BK),
        << Mv(g8, h8, 1, 0, 1, 1), Mv(g8, f8, 14, 0, 1, 1) >>)
    \* 14: Kg6 Qc4 / Kf8, white to move
      [] p = 14 ->
        Position(WHITE, FALSE, FALSE, (g6 :> WK) @@ (c4 :> WQ) @@ (f8 :> BK),
        << Mv(c4, f7, 12, 1, 2, 0) >> )
    \* 15: Kg6 Qc2 / Kf8, white to move
      [] p = 15 ->
        Position(WHITE, FALSE, FALSE, (g6 :> WK) @@ (c2 :> WQ) @@ (f8 :> BK),
        << Mv(c2, e2, 16, 0, 1, 0) >> )
    \* 16: Kg6 Qe2 / Kf8, black to move
      [] p = 16 ->
        Position(BLACK, FALSE, FALSE, (g6 :> WK) @@ (e2 :> WQ) @@ (f8 :> BK),
        << Mv(f8, g8, 17, 0, 1, 0) >> )
    \* 17: Kg6 Qe2 / Kg8, white to move
      [] p = 17 ->
        Position(WHITE, FALSE, FALSE, (g6 :> WK) @@ (e2 :> WQ) @@ (g8 :> BK),
        << Mv(e2, c4, 13, 0, 1, 0) >> )

PosIds == 1..17
NoMove == [from |-> 0, to |-> 0, promotion |-> None, target |-> 0,
           atkTo |-> 0, defTo |-> 0, atkFrom |-> 0, reach |-> 0]
NoPiece == [color |-> None, type |-> None]

\* The engine's answers about one position P of the table
PieceAt(P, sq) == IF sq \in DOMAIN P.pieces THEN P.pieces[sq] ELSE NoPiece
PiecesOf(P, t, c) == {sq \in DOMAIN P.pieces : P.pieces[sq] = Pc(c, t)}
KingOf(P, c) ==
    IF PiecesOf(P, "K", c) = {} THEN 0 - 1 ELSE CHOOSE sq \in PiecesOf(P, "K", c) : TRUE
MovesFrom(P, sq) == {i \in 1..Len(P.moves) : P.moves[i].from = sq}
Checkmate(P) == P.check /\ P.moves = << >>
Stalemate(P) == ~P.check /\ P.moves = << >>

\* The squares the king of colour c may step to by the rules of chess: what
\* the engine lists as that king's legal moves on a board with the pieces
\* of P where c is to move.  The pieces of the table are kings and queens.
Adjacent(a, b) ==
    /\ a # b
    /\ Abs(square_file(a) - square_file(b)) <= 1
    /\ Abs(square_rank(a) - square_rank(b)) <= 1
OnLine(a, b) ==
    /\ a # b
    /\ \/ square_file(a) = square_file(b)
       \/ square_rank(a) = square_rank(b)
       \/ Abs(square_file(a) - square_file(b)) = Abs(square_rank(a) - square_rank(b))
\* s lies on the line from a to b, strictly between them
Between(a, s, b) ==
    /\ OnLine(a, b) /\ OnLine(a, s) /\ OnLine(s, b)
    /\ Abs(square_file(a) - square_file(s)) + Abs(square_file(s) - square_file(b))
          = Abs(square_file(a) - square_file(b))
    /\ Abs(square_rank(a) - square_rank(s)) + Abs(square_rank(s) - square_rank(b))
          = Abs(square_rank(a) - square_rank(b))
\* the piece on `from` attacks `to` once the king has left the square `gone`
Attacks(P, from, to, gone) ==
    IF P.pieces[from].type = "K" THEN Adjacent(from, to)
    ELSE /\ P.pieces[from].type = "Q"
         /\ OnLine(from, to)
         /\ \A s \in DOMAIN P.pieces \ {gone} : ~Between(from, s, to)
KingFlights(P, c) ==
    {s \in 0..63 :
        /\ Adjacent(KingOf(P, c), s)
        /\ PieceAt(P, s).color # c
        /\ \A f \in DOMAIN P.pieces :
              (P.pieces[f].color = Not(c) /\ f # s) => ~Attacks(P, f, s, KingOf(P, c))}

\* ------------------------------------------------------------------------
\* chess.Board: the position, the full-move counter and the move stack.
\* A FEN carries the position and the counter; it does not carry the stack.
\* ------------------------------------------------------------------------
NoBoard == [pos |-> 0, fullmove |-> 0, stack |-> << >>]
Pos(board) == PositionTable(board.pos)
turn(board) == Pos(board).turn
legal_moves(board) == Pos(board).moves
LegalSet(board) == {Pos(board).moves[i] : i \in DOMAIN Pos(board).moves}
piece_at(board, sq) == PieceAt(Pos(board), sq)
is_check(board) == Pos(board).check
is_checkmate(board) == Checkmate(Pos(board))
is_stalemate(board) == Stalemate(Pos(board))
is_insufficient_material(board) == Pos(board).insufficient
\* the half-move clock is not part of the table: no position of it is a
\* seventy-five-move draw
is_seventyfive_moves(board) == FALSE
is_fivefold_repetition(board) ==
    Cardinality({i \in 1..Len(board.stack) : board.stack[i].pos = board.pos}) >= 4
HasKingside(P, c) == <<c, "k">> \in P.castling
HasQueenside(P, c) == <<c, "q">> \in P.castling

\* board.push(move) from a position where it is white's or black's turn
Board_push(board, m) ==
    [pos |-> m.target,
     fullmove |-> IF turn(board) = BLACK THEN board.fullmove + 1 ELSE board.fullmove,
     stack |-> Append(board.stack, [pos |-> board.pos, fullmove |-> board.fullmove])]
\* a pop that undoes nothing
Board_pop_keeps(board) == board

Board_pop(board) ==
    [pos |-> board.stack[Len(board.stack)].pos,
     fullmove |-> board.stack[Len(board.stack)].fullmove,
     stack |-> SubSeq(board.stack, 1, Len(board.stack) - 1)]
\* board.fen() and chess.Board(fen)
Board_fen(board) == [pos |-> board.pos, fullmove |-> board.fullmove]
Board_from_fen(fen) == [pos |-> fen.pos, fullmove |-> fen.fullmove, stack |-> << >>]

\* ------------------------------------------------------------------------
\* Game (src/backend/src/chess/game.py)
\* ------------------------------------------------------------------------
\* Game.__init__
Game_init ==
    [board |-> NoBoard, draw |-> None, checkmate |-> None,
     king_in_check |-> [c \in Colors |-> FALSE], last_player |-> BLACK,
     winner |-> None, is_checkmate |-> None]

Game_fen(g) == Board_fen(g.board)

\* Game._load_fen with the board b = chess.Board(fen), P its position: the
\* attribute written on checkmate is is_checkmate; the checkmate field keeps
\* the value it had
Loaded(g, b, P) ==
    [g EXCEPT !.board = b,
              !.draw = PyBool(\/ Stalemate(P)
                              \/ P.insufficient
                              \/ is_seventyfive_moves(b)
                              \/ is_fivefold_repetition(b)),
              !.king_in_check = [c \in Colors |-> P.check /\ P.turn = c],
              !.last_player = IF P.turn = BLACK THEN WHITE ELSE BLACK,
              !.is_checkmate = IF Checkmate(P)
                               THEN (IF P.turn = BLACK THEN WHITE ELSE BLACK) ELSE None,
              !.winner = IF Checkmate(P)
                         THEN (IF P.turn = BLACK THEN WHITE ELSE BLACK) ELSE None]
Game_load_fen(g, fen) == Loaded(g, Board_from_fen(fen), PositionTable(fen.pos))

\* Game.load(data) with the default format
Game_load(g, fen) == Game_load_fen(g, fen)

\* Game.move raises for a move that is not legal
Game_move_raises(g, m) == m \notin LegalSet(g.board)

\* Game.move after board.push(move), b the board and P its position now: the
\* draw reasons come first, and a mate is booked on last_player, the side
\* that did not make the move
Pushed(g, b, P) ==
    [g EXCEPT
       !.board = b,
       !.draw = IF Stalemate(P) THEN "stalemate"
                ELSE IF P.insufficient THEN "insufficient material"
                ELSE IF is_seventyfive_moves(b) THEN "seventyfive moves"
                ELSE IF is_fivefold_repetition(b) THEN "fivefold repetition"
                ELSE g.draw,
       !.checkmate = IF /\ ~Stalemate(P) /\ ~P.insufficient /\ ~is_seventyfive_moves(b)
                        /\ ~is_fivefold_repetition(b) /\ Checkmate(P)
                     THEN g.last_player ELSE g.checkmate,
       !.winner = IF /\ ~Stalemate(P) /\ ~P.insufficient /\ ~is_seventyfive_moves(b)
                     /\ ~is_fivefold_repetition(b) /\ Checkmate(P)
                  THEN g.last_player ELSE g.winner,
       !.king_in_check = [c \in Colors |-> c = g.last_player /\ P.check],
       !.last_player = IF g.last_player = BLACK THEN WHITE ELSE BLACK]

\* Game.move for a legal move
Game_move(g, m) == Pushed(g, Board_push(g.board, m), PositionTable(m.target))

\* Game.move as it would be without its test of legality
Game_move_call_unchecked(g, m) == [game |-> Game_move(g, m), raised |-> None]

\* Game.move(move) with any move: the test of legality comes first and
\* raises before anything is written
Game_move_call(g, m) ==
    IF Game_move_raises(g, m)
    THEN [game |-> g, raised |-> "Exception"]
    ELSE [game |-> Game_move(g, m), raised |-> None]

Game_is_game_over(g) == g.checkmate # None \/ Truthy(g.draw)

\* Game._update_game_state: the flags are recomputed from the board; not
\* board.turn is the side that has just moved
Game_update_game_state(g) ==
    [g EXCEPT
       !.checkmate = IF is_checkmate(g.board) THEN Not(turn(g.board)) ELSE None,
       !.draw = PyBool(\/ is_stalemate(g.board)
                       \/ is_insufficient_material(g.board)
                       \/ is_seventyfive_moves(g.board)
                       \/ is_fivefold_repetition(g.board)),
       !.king_in_check = [c \in Colors |-> is_check(g.board) /\ turn(g.board) = c],
       !.last_player = IF turn(g.board) = BLACK THEN WHITE ELSE BLACK,
       !.winner = IF is_checkmate(g.board) /\ g.winner = None
                  THEN (IF turn(g.board) = BLACK THEN WHITE ELSE BLACK)
                  ELSE g.winner]

RECURSIVE Board_pops(_, _)
Board_pops(board, n) == IF n = 0 THEN board ELSE Board_pops(Board_pop(board), n - 1)

\* Game.rewind(nb_moves) with no more moves than the stack holds
Game_rewind(g, nb_moves) ==
    Game_update_game_state([g EXCEPT !.board = Board_pops(g.board, nb_moves)])

\* Game.play(white, black, fen) with a FEN: the players are set and the FEN
\* is loaded
Game_play(g, fen) == Game_load(g, fen)

\* Game.play_engine_move when both players are engines, `answer` being what
\* the engine of the side to move returns if it is asked (NoMove for None):
\* it is not asked when either flag is anything but None; no move raises;
\* a move is applied with Game.move
Game_play_engine_move(g, answer) ==
    IF g.checkmate # None \/ g.draw # None
    THEN [game |-> g, raised |-> None, asked |-> FALSE]
    ELSE IF answer.target = 0
    THEN [game |-> g, raised |-> "Exception", asked |-> TRUE]
    ELSE [game |-> Game_move(g, answer), raised |-> None, asked |-> TRUE]

\* play_game after its loop: chess.WHITE is True and chess.BLACK is False,
\* so of the values of checkmate only chess.WHITE passes the if
play_game(g) ==
    IF g.checkmate = WHITE
    THEN (IF g.winner = WHITE THEN 1 ELSE 2)
    ELSE 0
Game_get_piece(g, sq) == piece_at(g.board, sq)

\* Game.PIECE_VALUES
PIECE_VALUES(t) ==
    CASE t = "P" -> 1 [] t = "N" -> 3 [] t = "B" -> 3
      [] t = "R" -> 5 [] t = "Q" -> 9 [] t = "K" -> 10

\* ------------------------------------------------------------------------
\* GreedyAI (src/backend/models/greedy/greedy_ai.py)
\* ------------------------------------------------------------------------
\* get_action_score returns a float with thirds, 4.5ths and 3.5ths in it;
\* the model counts it in units of 1/63.
Unit == 9 * 7
MateScore == 1000000

\* GreedyAI.__init__: last_move_piece, last_last_move_piece
NoMemory == [last_move_piece |-> None, last_last_move_piece |-> None]

Coord_distance(f, t) ==
    Abs(square_file(f) - square_file(t)) + Abs(square_rank(f) - square_rank(t))

\* the piece-specific part of get_action_score; P is the position the move
\* is scored in
PieceBonus(P, fullmove, m, piece_type, color) ==
    CASE piece_type = "P" ->
           Unit * ( 1 + (IF square_rank(m.to) \in {0, 7} THEN 5 ELSE 0)
                  + (IF square_rank(m.to) >= 6 THEN 3 ELSE 0)
                  + (IF Abs(square_rank(m.from) - square_rank(m.to)) = 2 THEN 1 ELSE 0)
                  + (IF /\ Cardinality(PiecesOf(P, "P", color)) < 4
                        /\ Cardinality(PiecesOf(P, "Q", color)) = 0
                     THEN 6 ELSE 0) )
      [] piece_type = "N" ->
           Unit * ( 3 + (IF BB_EDGE(m.to) THEN 0 - 6 ELSE 0)
                  + (IF BB_EDGE(m.from) THEN 3 ELSE 0) )
      [] piece_type = "B" ->
           Unit * 3 + (Unit \div 3) * m.reach
           + ((2 * Unit) \div 9) * Coord_distance(m.from, m.to)
           + (IF square_rank(m.to) = 0 /\ square_file(m.to) \in {2, 3, 4, 5}
              THEN 0 - 10 * Unit ELSE 0)
      [] piece_type = "R" ->
           Unit * 1 + ((2 * Unit) \div 7) * Coord_distance(m.from, m.to)
           + (IF color = WHITE
              THEN (IF m.from = Sq(0, 0) /\ HasKingside(P, WHITE)
                    THEN 0 - 20 * Unit ELSE 0)
                 + (IF m.from = Sq(7, 0) /\ HasQueenside(P, WHITE)
                    THEN 0 - 20 * Unit ELSE 0)
              ELSE (IF m.from = Sq(0, 7) /\ HasKingside(P, BLACK)
                    THEN 0 - 20 * Unit ELSE 0)
                 + (IF m.from = Sq(7, 7) /\ HasQueenside(P, BLACK)
                    THEN 0 - 20 * Unit ELSE 0))
      [] piece_type = "Q" ->
           Unit * ( (IF fullmove < 15 THEN 0 - 20 ELSE 0)
                  - 3 * Cardinality({sq \in DOMAIN P.pieces :
                          /\ square_rank(sq) = (IF color = WHITE THEN 0 ELSE 7)
                          /\ P.pieces[sq].color = color}) )
      [] piece_type = "K" -> 0 - 50 * Unit

\* the part of get_action_score computed before the move is pushed
StaticScore(P, fullmove, mem, m, piece_type, color) ==
    Unit * ( PIECE_VALUES(piece_type)
           + (IF PieceAt(P, m.to) # NoPiece
              THEN PIECE_VALUES(PieceAt(P, m.to).type) * 9 ELSE 0)
           + (IF mem.last_move_piece = piece_type THEN 0 - 20 ELSE 0)
           + (IF mem.last_last_move_piece = piece_type THEN 0 - 10 ELSE 0)
           + (IF square_rank(m.from) = (IF color = WHITE THEN 1 ELSE 6) THEN 5 ELSE 0)
           + (IF piece_type = "K" /\ Abs(square_file(m.from) - square_file(m.to)) = 2
              THEN 15 ELSE 0)
           + (IF BB_CENTER(m.to) THEN 5 ELSE 0)
           + (IF BB_CENTER(m.from) /\ ~BB_CENTER(m.to) THEN 0 - 5 ELSE 0)
           + (IF BB_EDGE(m.to) \/ BB_EDGE(m.from) THEN 0 - 5 ELSE 0) )
    + PieceBonus(P, fullmove, m, piece_type, color)
    + Unit * ( (IF m.promotion # None THEN (PIECE_VALUES(m.promotion) - 1) * 3 ELSE 0)
             \* attackers = enemy attackers of the destination + 1
             + (IF m.atkTo + 1 > 1 THEN 0 - PIECE_VALUES(piece_type) * 8 ELSE 0)
             + (IF m.atkTo + 1 > m.defTo THEN 0 - PIECE_VALUES(piece_type) * 5 ELSE 0)
             \* attackers_from = enemy attackers of the origin + 1
             + (IF m.atkFrom + 1 > 0 THEN PIECE_VALUES(piece_type) * 5 ELSE 0) )

\* the same part without the value a checkmate is given
PushedScore_mate_unmarked(static, Q, color) ==
    (IF Stalemate(Q) THEN static - MateScore * Unit ELSE static)
    + (IF Q.check THEN 3 * Unit ELSE 0)

\* the part of get_action_score computed between board.push(move) and
\* board.pop(); Q is the position after the move.  Both counts of the enemy
\* king's moves are taken after the push.
PushedScore(static, Q, color) ==
    (IF Checkmate(Q) THEN MateScore * Unit
     ELSE IF Stalemate(Q) THEN static - MateScore * Unit
     ELSE static)
    + (IF Q.check THEN 3 * Unit ELSE 0)
    + ( Cardinality(MovesFrom(Q, KingOf(Q, Not(color))))
      - Cardinality(MovesFrom(Q, KingOf(Q, Not(color)))) ) * 5 * Unit
    + (IF Q.check
       THEN ( Cardinality(MovesFrom(Q, KingOf(Q, Not(color))))
            - Cardinality(MovesFrom(Q, KingOf(Q, Not(color)))) ) * Unit
       ELSE 0)

\* get_action_score on the position P, for a piece standing on the origin
ScoreMove(P, fullmove, mem, m, from_piece) ==
    IF from_piece = NoPiece THEN 0 - 1000 * Unit
    ELSE PushedScore(StaticScore(P, fullmove, mem, m, from_piece.type, from_piece.color),
                     PositionTable(m.target), from_piece.color)

\* GreedyAI.get_action_score(move)
get_action_score(g, mem, m) ==
    ScoreMove(Pos(g.board), g.board.fullmove, mem, m, Game_get_piece(g, m.from))

\* what get_action_score leaves of the board it scores on: the move is
\* pushed and popped
ScoreEffect(board, m) == Board_pop(Board_push(board, m))

\* what scoring each of the moves in turn leaves of the board
RECURSIVE RankEffect(_, _)
RankEffect(board, moves) ==
    IF moves = << >> THEN board
    ELSE RankEffect(ScoreEffect(board, moves[1]), Tail(moves))

\* a descending sort that puts the later of two equal keys first
SortedBy_ties_reversed(all, key) ==
    [r \in 1..Len(all) |->
        all[CHOOSE i \in 1..Len(all) :
              r = 1 + Cardinality({j \in 1..Len(all) :
                        key[j] > key[i] \/ (key[j] = key[i] /\ j > i)})]]

\* sorted(all, key=..., reverse=True) for the keys of all: descending, equal
\* keys in enumeration order
SortedBy(all, key) ==
    [r \in 1..Len(all) |->
        all[CHOOSE i \in 1..Len(all) :
              r = 1 + Cardinality({j \in 1..Len(all) :
                        key[j] > key[i] \/ (key[j] = key[i] /\ j < i)})]]

\* sorted(all_moves, key=self.get_action_score, reverse=True)
SortedMoves(g, mem) ==
    SortedBy(legal_moves(g.board),
             [i \in DOMAIN legal_moves(g.board) |->
                 get_action_score(g, mem, legal_moves(g.board)[i])])

\* a min that takes its second argument
Min_takes_second(a, b) == b

Min(a, b) == IF a < b THEN a ELSE b

\* a play() whose list mode files the piece of its first move as well
PlaySorted_list_remembers(sorted, from_piece, mem, topN) ==
    IF sorted = << >>
    THEN [kind |-> "none", moves |-> << >>, mem |-> mem]
    ELSE IF topN > 0
    THEN [kind |-> "list", moves |-> SubSeq(sorted, 1, Min(topN, Len(sorted))),
          mem |-> [last_move_piece |-> from_piece.type,
                   last_last_move_piece |-> mem.last_move_piece]]
    ELSE [kind |-> "move", moves |-> << sorted[1] >>,
          mem |-> [last_move_piece |-> from_piece.type,
                   last_last_move_piece |-> mem.last_move_piece]]

\* a play() whose single-best mode files the chosen piece in both entries
PlaySorted_files_twice(sorted, from_piece, mem, topN) ==
    IF sorted = << >>
    THEN [kind |-> "none", moves |-> << >>, mem |-> mem]
    ELSE IF topN > 0
    THEN [kind |-> "list", moves |-> SubSeq(sorted, 1, Min(topN, Len(sorted))), mem |-> mem]
    ELSE [kind |-> "move", moves |-> << sorted[1] >>,
          mem |-> [last_move_piece |-> from_piece.type,
                   last_last_move_piece |-> from_piece.type]]

\* a play() that files a king move in its memory when there is no legal move
PlaySorted_none_remembers(sorted, from_piece, mem, topN) ==
    IF sorted = << >>
    THEN [kind |-> "none", moves |-> << >>,
          mem |-> [last_move_piece |-> "K", last_last_move_piece |-> mem.last_move_piece]]
    ELSE IF topN > 0
    THEN [kind |-> "list", moves |-> SubSeq(sorted, 1, Min(topN, Len(sorted))), mem |-> mem]
    ELSE [kind |-> "move", moves |-> << sorted[1] >>,
          mem |-> [last_move_piece |-> from_piece.type,
                   last_last_move_piece |-> mem.last_move_piece]]

\* GreedyAI.play(topN) given the moves sorted by score: None without a legal
\* move, the first topN for topN > 0, and otherwise the first move of maximal
\* score, remembered in the agent's two-entry memory
PlaySorted(sorted, from_piece, mem, topN) ==
    IF sorted = << >>
    THEN [kind |-> "none", moves |-> << >>, mem |-> mem]
    ELSE IF topN > 0
    THEN [kind |-> "list", moves |-> SubSeq(sorted, 1, Min(topN, Len(sorted))), mem |-> mem]
    ELSE [kind |-> "move", moves |-> << sorted[1] >>,
          mem |-> [last_move_piece |-> from_piece.type,
                   last_last_move_piece |-> mem.last_move_piece]]

\* GreedyAI.play(topN)
GreedyAI_play(g, mem, topN) ==
    PlaySorted(SortedMoves(g, mem),
               IF legal_moves(g.board) = << >> THEN NoPiece
               ELSE Game_get_piece(g, SortedMoves(g, mem)[1].from),
               mem, topN)

\* ------------------------------------------------------------------------
\* State
\* ------------------------------------------------------------------------
VARIABLES
    heap,        \* the Game objects alive, by identity
    sm,          \* the Simulation object in use (one at a time)
    trace,       \* what the client of a stand-alone Sandbox did last
    sel,         \* the GreedyExplorationAI: color, memory, its GreedyAI
    pc,          \* where play() is: idle, evaluating, returned, raised, nomove
    top_moves,   \* the candidate pool of the decision
    cand,        \* the candidate whose samples are running
    move_penalty,\* simulate_move's move_penalty for that candidate
    scores,      \* its gather() slots, by sample index
    order,       \* the sample indices in the order the samples completed
    move_scores, \* the aggregates of the candidates evaluated so far
    task,        \* the rollout sample that holds the event loop
    result,      \* what play() returned
    livePlies,   \* moves applied to the live game
    faults,      \* rules-engine faults raised in this decision
    rank,        \* a GreedyAI agent of its own: its memory, its last play(topN)
    match        \* a game between two engines: the last call on it, its outcome

decisionVars == <<sel, pc, top_moves, cand, move_penalty, scores, order,
                  move_scores, task, result, livePlies, faults>>
vars == <<heap, sm, trace, sel, pc, top_moves, cand, move_penalty, scores, order,
          move_scores, task, result, livePlies, faults, rank, match>>

\* ------------------------------------------------------------------------
\* Simulation (src/backend/src/chess/simulation.py)
\* ------------------------------------------------------------------------
\* Game objects are told apart by identity: the caller's game is object 0
\* and every Game() that Simulation.__init__ constructs is a new object
SourceGame == 0
NoObject == 0 - 1
NoCheckpoints == << >>
NoSimulation == [initial_game |-> NoObject, game |-> NoObject, checkpoints |-> NoCheckpoints]
CheckpointNames == {"a", "b"}

\* __init__ as it would be without the clone: game is the caller's object too
Simulation_init_shared(h, src, new) ==
    [heap |-> h,
     sm |-> [initial_game |-> src, game |-> src, checkpoints |-> NoCheckpoints]]

\* Simulation.__init__: initial_game is the caller's Game object itself, game
\* is a new Game loaded from its FEN
Simulation_init(h, src, new) ==
    [heap |-> (new :> Game_load(Game_init, Game_fen(h[src]))) @@ h,
     sm |-> [initial_game |-> src, game |-> new, checkpoints |-> NoCheckpoints]]

\* __exit__ as it would be if it only cleared the checkpoints
Simulation_exit_keeps_game(h, s) ==
    [heap |-> h, sm |-> [s EXCEPT !.checkpoints = NoCheckpoints]]

\* Simulation.__exit__: the checkpoints are cleared and the game attribute is
\* deleted; the Game it named goes with its last reference
Simulation_exit(h, s) ==
    [heap |-> [id \in DOMAIN h \ ({s.game} \ {s.initial_game}) |-> h[id]],
     sm |-> [s EXCEPT !.checkpoints = NoCheckpoints, !.game = NoObject]]

\* Simulation.checkpoint
Simulation_checkpoint(h, s, name) ==
    [s EXCEPT !.checkpoints =
        [n \in DOMAIN s.checkpoints \cup {name} |->
            IF n = name THEN Game_fen(h[s.game]) ELSE s.checkpoints[n]]]

\* Simulation.rollback: with a checkpoint of that name it calls Game.load on
\* the class with the FEN as its only argument, which Python rejects with a
\* TypeError (load() lacks its data argument); without one it does nothing
Simulation_rollback(h, s, name) ==
    IF name \in DOMAIN s.checkpoints
    THEN [heap |-> h, sm |-> s, raised |-> "TypeError"]
    ELSE [heap |-> h, sm |-> s, raised |-> None]

\* reset as it would be without the reload: only the flags are copied
Simulation_reset_flags_only(h, s) ==
    LET g0 == h[s.initial_game]
    IN  [h EXCEPT ![s.game] =
            [h[s.game] EXCEPT
                !.checkmate = g0.checkmate,
                !.draw = g0.draw,
                !.king_in_check = g0.king_in_check,
                !.last_player = g0.last_player]]

\* Simulation.reset: the game is reloaded from the FEN initial_game has now,
\* and initial_game's cached flags are copied over
Simulation_reset(h, s) ==
    LET g0 == h[s.initial_game]
    IN  [h EXCEPT ![s.game] =
            [Game_load(h[s.game], Game_fen(g0)) EXCEPT
                !.checkmate = g0.checkmate,
                !.draw = g0.draw,
                !.king_in_check = g0.king_in_check,
                !.last_player = g0.last_player]]

\* ------------------------------------------------------------------------
\* A Game as play has reached it: the flags Game.move left
\* ------------------------------------------------------------------------
PlayedGame(p) ==
    LET b == [pos |-> p, fullmove |-> StartFullmove, stack |-> << >>]
    IN  [board |-> b, draw |-> None, checkmate |-> None,
         king_in_check |-> [c \in Colors |-> is_check(b) /\ turn(b) = c],
         last_player |-> Not(turn(b)), winner |-> None, is_checkmate |-> None]

\* the opening positions: the white selector's, and the black selector's
\* with one legal move and with two
StartPositions == {1, 5, 13}

NoTask == [s |-> 0, stage |-> "none", plies |-> 0, ret |-> 0,
           eng |-> [c \in Colors |-> NoMemory]]

\* no game between two engines
NoMatch == [op |-> "none", origin |-> "none", calls |-> 0, rewound |-> FALSE,
            moved |-> FALSE, arg |-> NoMove, raised |-> None, returned |-> 0 - 1]

\* a GreedyAI agent that has not played
NoRank == [memory |-> NoMemory, asked |-> NoMemory, topN |-> 0, kind |-> "idle",
           moves |-> << >>]

\* the agent after play(topN) on g: what it was asked with, what it returned
\* and the memory it has now
RankedAs(agent, topN, played) ==
    [memory |-> played.mem, asked |-> agent.memory, topN |-> topN,
     kind |-> played.kind, moves |-> played.moves]
Ranked(agent, g, topN) == RankedAs(agent, topN, GreedyAI_play(g, agent.memory, topN))

\* the game with the board as play() left it
Scored(g) == [g EXCEPT !.board = RankEffect(g.board, legal_moves(g.board))]

\* __init__ as it would be without its assert
GreedyExplorationAI_init_unchecked(color, size, sample) ==
    [agent |-> [color |-> color, memory |-> NoMemory,
                exploration_size |-> size, exploration_sample |-> sample,
                greedy |-> [created |-> FALSE, memory |-> NoMemory]],
     raised |-> None]

\* GreedyExplorationAI.__init__ with exploration_size and exploration_sample
\* as its lines 26 and 28 give them: no GreedyAI yet, an empty memory, and
\* the assert on the parity of exploration_sample as its last statement
GreedyExplorationAI_init(color, size, sample) ==
    [agent |-> [color |-> color, memory |-> NoMemory,
                exploration_size |-> size, exploration_sample |-> sample,
                greedy |-> [created |-> FALSE, memory |-> NoMemory]],
     raised |-> IF sample % 2 = 0 THEN None ELSE "AssertionError"]

\* no decision under way
IdleDecision ==
    /\ top_moves = << >>
    /\ cand = 0
    /\ move_penalty = 0
    /\ scores = << >>
    /\ order = << >>
    /\ move_scores = << >>
    /\ task = NoTask
    /\ result = NoMove
    /\ livePlies = 0
    /\ faults = 0

\* ------------------------------------------------------------------------
\* GreedyExplorationAI (src/backend/models/greedy/greedy_exploration.py)
\* ------------------------------------------------------------------------
RECURSIVE SumSeq(_)
SumSeq(q) == IF q = << >> THEN 0 ELSE q[1] + SumSeq(Tail(q))

\* get_score's own PIECE_VALUES
ROLLOUT_PIECE_VALUES(t) ==
    CASE t = "P" -> 15 [] t = "N" -> 32 [] t = "B" -> 33
      [] t = "R" -> 50 [] t = "Q" -> 90 [] t = "K" -> 0

PieceTypeOrder == << "P", "N", "B", "R", "Q", "K" >>

\* chess.BB_PAWN_ATTACKS[color][square]
BB_PAWN_ATTACKS(c, sq) ==
    IF c = WHITE
    THEN {t \in {sq + 7, sq + 9} : t \in 0..63 /\ Abs(square_file(t) - square_file(sq)) = 1}
    ELSE {t \in {sq - 9, sq - 7} : t \in 0..63 /\ Abs(square_file(t) - square_file(sq)) = 1}

\* get_score's bonus for one legal move of the evaluated position
MobilityBonus(P, m) ==
    IF PieceAt(P, m.from).type = "P"
    THEN (IF BB_CENTER(m.to) THEN 5 ELSE 0)
       + (IF square_rank(m.to) \in {0, 7} THEN 30 ELSE 0)
       + (IF square_rank(m.from) \in {1, 6} THEN 1 ELSE 0)
       + (IF square_rank(m.to) \in {2, 5} THEN 1 ELSE 0)
    ELSE IF PieceAt(P, m.from).type # "K"
    THEN (IF BB_CENTER(m.to) THEN 3 ELSE 0)
       + (IF square_rank(m.from) \in {1, 6} THEN 5 ELSE 0)
    ELSE 0

\* get_score on the position P of the game it is given, L the position of
\* self.game, the live game: the opposing king's moves are counted on L
ScorePosition(color, L, P) ==
    2 * SumSeq([i \in 1..Len(PieceTypeOrder) |->
          ROLLOUT_PIECE_VALUES(PieceTypeOrder[i])
            * ( Cardinality(PiecesOf(P, PieceTypeOrder[i], color))
              - Cardinality(PiecesOf(P, PieceTypeOrder[i], Not(color))) )])
    + SumSeq([i \in 1..Len(P.moves) |-> MobilityBonus(P, P.moves[i])])
    + (IF BB_CENTER(KingOf(P, Not(color))) THEN 100 ELSE 0)
    - Cardinality(MovesFrom(L, KingOf(L, Not(color)))) * 2
    + (IF KingOf(P, color) > 0
       THEN (IF HasKingside(P, color) \/ HasQueenside(P, color) THEN 20 ELSE 0 - 20)
          + 10 * Cardinality({sq \in BB_PAWN_ATTACKS(color, KingOf(P, color)) :
                                PieceAt(P, sq).type = "P"})
       ELSE 0)

\* GreedyExplorationAI.get_score(game)
get_score(color, live, g) == ScorePosition(color, Pos(live.board), Pos(g.board))

\* simulate_move as it would be without a repetition penalty
MovePenalty_none(memory, live, m) == 0

\* simulate_move's move_penalty
MovePenalty(memory, live, m) ==
    LET move_piece == Game_get_piece(live, m.from).type
    IN  (IF memory.last_move_piece = move_piece THEN 0 - 20 ELSE 0)
      + (IF memory.last_last_move_piece = move_piece THEN 0 - 10 ELSE 0)

\* single_simulation's terminal branch with the two mate scores exchanged
SampleReturn_exchanged(color, live, g, m) ==
    IF Game_is_game_over(g)
    THEN IF g.checkmate # color THEN 0 - MateScore ELSE MateScore
    ELSE get_score(color, live, g)

\* what single_simulation returns once the Sandbox has been run
SampleReturn(color, live, g, m) ==
    IF Game_is_game_over(g)
    THEN IF g.checkmate # color THEN MateScore
         ELSE IF g.checkmate = color THEN 0 - MateScore
         ELSE 0
    ELSE get_score(color, live, g)
         + (IF /\ BB_EDGE(m.to)
               /\ Game_get_piece(live, m.from).type # "B"
               /\ Game_get_piece(live, m.to) = NoPiece
            THEN 0 - 100 ELSE 0)
         + (IF m.from = 4 /\ m.to \in {6, 2} THEN 200 ELSE 0)
         + (IF m.from = 60 /\ m.to \in {62, 58} THEN 200 ELSE 0)

\* a mean that depends on the order of its argument: the first entry counts twice
NpMean_first_twice(q) == [num |-> SumSeq(q) + q[1], den |-> Len(q) + 1]

\* np.mean(scores), kept as a fraction
NpMean(q) == [num |-> SumSeq(q), den |-> Len(q)]

\* np.mean(scores) + move_penalty
Aggregate(q, penalty) ==
    [num |-> NpMean(q).num + penalty * NpMean(q).den, den |-> NpMean(q).den]

Less(a, b) == a.num * b.den < b.num * a.den

\* an argmax that takes the last index of a maximal entry
ArgMax_last(q) ==
    CHOOSE i \in 1..Len(q) :
        /\ \A j \in 1..Len(q) : ~Less(q[i], q[j])
        /\ \A j \in (i + 1)..Len(q) : Less(q[j], q[i])

\* np.argmax(move_scores): the first index of a maximal entry
ArgMax(q) ==
    CHOOSE i \in 1..Len(q) :
        /\ \A j \in 1..Len(q) : ~Less(q[i], q[j])
        /\ \A j \in 1..(i - 1) : Less(q[j], q[i])

\* ------------------------------------------------------------------------
\* A stand-alone Sandbox and its client: the source game is played on, the
\* client opens a Sandbox on it and calls its operations in any order.
\* ------------------------------------------------------------------------
\* the flags a Game caches about its position
Game_flags(g) ==
    [checkmate |-> g.checkmate, draw |-> g.draw,
     king_in_check |-> g.king_in_check, last_player |-> g.last_player]

NoTrace == [op |-> "none", arg |-> None, raised |-> None, open_fen |-> None,
            open_flags |-> None,
            taken |-> NoCheckpoints, source_moves |-> 0, sandbox_moves |-> 0,
            source_moved |-> FALSE]

InitSandbox ==
    /\ \E p \in StartPositions : heap = (SourceGame :> PlayedGame(p))
    /\ sm = NoSimulation
    /\ trace = NoTrace
    /\ sel = GreedyExplorationAI_init(WHITE, ExplorationSize, ExplorationSample).agent
    /\ pc = "idle"
    /\ IdleDecision
    /\ rank = NoRank
    /\ match = NoMatch

IsOpen == sm.game # NoObject

\* Simulation(source)
Open ==
    /\ trace.op = "none"
    /\ LET r == Simulation_init(heap, SourceGame, SourceGame + 1)
       IN  /\ heap' = r.heap
           /\ sm' = r.sm
           /\ trace' = [trace EXCEPT !.op = "open", !.open_fen = Game_fen(r.heap[r.sm.game]),
                                     !.open_flags = Game_flags(r.heap[r.sm.game])]
    /\ UNCHANGED decisionVars
    /\ UNCHANGED rank
    /\ UNCHANGED match

\* source.move(m), by whoever plays the source game
SourceMove ==
    /\ trace.source_moves < MaxSandboxMoves
    /\ \E m \in LegalSet(heap[SourceGame].board) :
          heap' = [heap EXCEPT ![SourceGame] = Game_move(@, m)]
    /\ trace' = [trace EXCEPT !.source_moves = @ + 1,
                              !.source_moved = IsOpen \/ @]
    /\ UNCHANGED <<sm>>
    /\ UNCHANGED decisionVars
    /\ UNCHANGED rank
    /\ UNCHANGED match

\* sm.game.move(m) with a legal move
SandboxMove ==
    /\ IsOpen
    /\ trace.sandbox_moves < MaxSandboxMoves
    /\ \E m \in LegalSet(heap[sm.game].board) :
          heap' = [heap EXCEPT ![sm.game] = Game_move(@, m)]
    /\ trace' = [trace EXCEPT !.op = "move", !.arg = None, !.raised = None,
                              !.sandbox_moves = @ + 1]
    /\ UNCHANGED <<sm>>
    /\ UNCHANGED decisionVars
    /\ UNCHANGED rank
    /\ UNCHANGED match

\* sm.checkpoint(name)
Checkpoint ==
    /\ IsOpen
    /\ \E name \in CheckpointNames :
          /\ sm' = Simulation_checkpoint(heap, sm, name)
          /\ trace' = [trace EXCEPT !.op = "checkpoint", !.arg = name, !.raised = None,
                          !.taken = [n \in DOMAIN trace.taken \cup {name} |->
                              IF n = name THEN Game_fen(heap[sm.game]) ELSE trace.taken[n]]]
    /\ UNCHANGED <<heap>>
    /\ UNCHANGED decisionVars
    /\ UNCHANGED rank
    /\ UNCHANGED match

\* sm.rollback(name)
Rollback ==
    /\ IsOpen
    /\ \E name \in CheckpointNames :
          LET r == Simulation_rollback(heap, sm, name)
          IN  /\ heap' = r.heap
              /\ sm' = r.sm
              /\ trace' = [trace EXCEPT !.op = "rollback", !.arg = name,
                                        !.raised = r.raised]
    /\ UNCHANGED decisionVars
    /\ UNCHANGED rank
    /\ UNCHANGED match

\* sm.reset()
Reset ==
    /\ IsOpen
    /\ heap' = Simulation_reset(heap, sm)
    /\ trace' = [trace EXCEPT !.op = "reset", !.arg = None, !.raised = None]
    /\ UNCHANGED <<sm>>
    /\ UNCHANGED decisionVars
    /\ UNCHANGED rank
    /\ UNCHANGED match

\* leaving the with block
Exit ==
    /\ IsOpen
    /\ LET r == Simulation_exit(heap, sm)
       IN  /\ heap' = r.heap
           /\ sm' = r.sm
    /\ trace' = [trace EXCEPT !.op = "exit", !.arg = None, !.raised = None]
    /\ UNCHANGED decisionVars
    /\ UNCHANGED rank
    /\ UNCHANGED match

NextSandbox ==
    \/ Open
    \/ SourceMove
    \/ SandboxMove
    \/ Checkpoint
    \/ Rollback
    \/ Reset
    \/ Exit

SpecSandbox == InitSandbox /\ [][NextSandbox]_vars

\* ------------------------------------------------------------------------
\* A game with a GreedyExplorationAI on one side.  play() fans the rollout
\* samples out on an event loop.  A sample has no suspension point: once the
\* loop runs it, it runs from Simulation(...) to the end of its with block
\* before any other task runs.  The loop takes the samples of a candidate
\* before those of the next one; the order in which the samples of one
\* candidate are taken is left open here.
\* ------------------------------------------------------------------------
Init ==
    /\ \E p \in StartPositions, size \in ExplorationSizes, sample \in ConfiguredSamples :
          LET made == GreedyExplorationAI_init(PositionTable(p).turn, size, sample)
          IN  /\ heap = (SourceGame :> PlayedGame(p))
              /\ sel = made.agent
              /\ pc = IF made.raised = None THEN "idle" ELSE "rejected"
    /\ sm = NoSimulation
    /\ trace = NoTrace
    /\ IdleDecision
    /\ rank = NoRank
    /\ match = NoMatch

Live == heap[SourceGame]
Samples == 1..sel.exploration_sample
PendingSlots == [s \in Samples |-> [st |-> "pending", v |-> 0, refs |-> {}]]
\* the identity of the Game that sample s of candidate c constructs
CloneOf(c, s) == (c - 1) * sel.exploration_sample + s

\* play(), by Game.play_engine_move or by any other caller, up to the
\* fan-out: the GreedyAI is created once and scores every legal move on the
\* live board, the candidate pool is its top exploration_size moves, and no
\* pool means no move
PlayStart ==
    /\ pc = "idle"
    /\ livePlies <= MaxLivePlies
    /\ turn(Live.board) = sel.color
    /\ heap' = [heap EXCEPT ![SourceGame].board =
                    RankEffect(Live.board, legal_moves(Live.board))]
    /\ LET top == GreedyAI_play(Live, sel.greedy.memory, sel.exploration_size)
       IN  /\ sel' = [sel EXCEPT !.greedy = [created |-> TRUE, memory |-> top.mem]]
           /\ IF top.kind = "none"
              THEN /\ pc' = "nomove"
                   /\ UNCHANGED <<top_moves, cand, move_penalty, scores>>
              ELSE IF top.kind = "move"
              THEN \* a single Move is not a sequence of candidates
                   /\ pc' = "raised"
                   /\ UNCHANGED <<top_moves, cand, move_penalty, scores>>
              ELSE /\ pc' = "evaluating"
                   /\ top_moves' = top.moves
                   /\ cand' = 1
                   /\ move_penalty' = MovePenalty(sel.memory, Live, top.moves[1])
                   /\ scores' = PendingSlots
    /\ order' = << >>
    /\ move_scores' = << >>
    /\ result' = NoMove
    /\ faults' = 0
    /\ UNCHANGED <<sm, trace, task, livePlies>>
    /\ UNCHANGED rank
    /\ UNCHANGED match

Evaluating == pc = "evaluating" /\ Len(move_scores) < cand

\* single_simulation: with Simulation(self.game) as sm
SampleOpen ==
    /\ Evaluating
    /\ task.stage = "none"
    /\ \E s \in Samples :
          /\ scores[s].st = "pending"
          /\ LET r == Simulation_init(heap, SourceGame, CloneOf(cand, s))
             IN  /\ heap' = r.heap
                 /\ sm' = r.sm
                 /\ scores' = [scores EXCEPT ![s].st = "running",
                                  ![s].refs = {SourceGame, r.sm.initial_game, r.sm.game}]
          /\ task' = [NoTask EXCEPT !.s = s, !.stage = "opened"]
    /\ UNCHANGED <<trace, sel, pc, top_moves, cand, move_penalty, order,
                   move_scores, result, livePlies, faults>>
    /\ UNCHANGED rank
    /\ UNCHANGED match

\* sm.game.move(move): the rules engine may fail, and Game.move raises for a
\* move that is not legal in the Sandbox
SampleCandidate ==
    /\ task.stage = "opened"
    /\ \/ /\ faults < MaxFaults
          /\ faults' = faults + 1
          /\ task' = [task EXCEPT !.stage = "raising"]
          /\ UNCHANGED heap
       \/ /\ Game_move_raises(heap[sm.game], top_moves[cand])
          /\ task' = [task EXCEPT !.stage = "raising"]
          /\ UNCHANGED <<heap, faults>>
       \/ /\ ~Game_move_raises(heap[sm.game], top_moves[cand])
          /\ heap' = [heap EXCEPT ![sm.game] = Game_move(@, top_moves[cand])]
          /\ task' = [task EXCEPT !.stage = IF ExplorationDepth > 0 THEN "run" ELSE "score",
                                  !.plies = ExplorationDepth]
          /\ UNCHANGED faults
    /\ UNCHANGED <<sm, trace, sel, pc, top_moves, cand, move_penalty, scores, order,
                   move_scores, result, livePlies>>
    /\ UNCHANGED rank
    /\ UNCHANGED match

\* the loop as it would be without its range: it goes on until the game is over
Simulation_run_goes_on_unbounded(after, left) == ~Game_is_game_over(after)

\* Simulation.run's bounded loop after an iteration that applied a move and
\* left the game `after`, `left` iterations of range(depth) having been left
\* before it: a finished game returns, an exhausted range ends the loop
Simulation_run_goes_on(after, left) == ~Game_is_game_over(after) /\ left > 1

\* one iteration of Simulation.run's bounded loop: the agent of the side to
\* move plays; no move ends the run; of a list one move is picked at
\* random; the move is applied and a finished game ends the run
SamplePly ==
    /\ task.stage = "run"
    /\ LET g == [heap[sm.game] EXCEPT !.board =
                    RankEffect(heap[sm.game].board, legal_moves(heap[sm.game].board))]
           side == turn(g.board)
           played == GreedyAI_play(g, task.eng[side], ChoiceExploration)
       IN  IF played.kind = "none"
           THEN /\ task' = [task EXCEPT !.stage = "score"]
                /\ UNCHANGED heap
           ELSE \E i \in 1..Len(played.moves) :
                  LET after == Game_move(g, played.moves[i])
                  IN  /\ heap' = [heap EXCEPT ![sm.game] = after]
                      /\ task' = [task EXCEPT
                            !.eng[side] = played.mem,
                            !.plies = @ - 1,
                            !.stage = IF Simulation_run_goes_on(after, task.plies)
                                      THEN "run" ELSE "score"]
    /\ UNCHANGED <<sm, trace, sel, pc, top_moves, cand, move_penalty, scores, order,
                   move_scores, result, livePlies, faults>>
    /\ UNCHANGED rank
    /\ UNCHANGED match

\* the rest of the with block: the value single_simulation will return
SampleScore ==
    /\ task.stage = "score"
    /\ task' = [task EXCEPT !.stage = "exit",
                   !.ret = SampleReturn(sel.color, Live, heap[sm.game], top_moves[cand])]
    /\ UNCHANGED <<heap, sm, trace, sel, pc, top_moves, cand, move_penalty, scores,
                   order, move_scores, result, livePlies, faults>>
    /\ UNCHANGED rank
    /\ UNCHANGED match

\* the with block is left, by return or by exception: Simulation.__exit__
\* runs, and the sample completes with its score or with the exception
SampleExit ==
    /\ task.stage \in {"exit", "raising"}
    /\ LET r == Simulation_exit(heap, sm)
       IN  /\ heap' = r.heap
           /\ sm' = r.sm
    /\ scores' = [scores EXCEPT
          ![task.s].st = IF task.stage = "exit" THEN "done" ELSE "failed",
          ![task.s].v = IF task.stage = "exit" THEN task.ret ELSE 0]
    /\ order' = Append(order, task.s)
    /\ task' = NoTask
    /\ UNCHANGED <<trace, sel, pc, top_moves, cand, move_penalty, move_scores,
                   result, livePlies, faults>>
    /\ UNCHANGED rank
    /\ UNCHANGED match

Finished(s) == scores[s].st \in {"done", "failed"}

\* simulate_move after its gather(): the mean of the slots plus the penalty,
\* or the exception of a failed sample
SimulateMoveReturn ==
    /\ Evaluating
    /\ task.stage = "none"
    /\ \A s \in Samples : Finished(s)
    /\ move_scores' = Append(move_scores,
          IF \E s \in Samples : scores[s].st = "failed"
          THEN [ok |-> FALSE, num |-> 0, den |-> 1]
          ELSE LET a == Aggregate([s \in Samples |-> scores[s].v], move_penalty)
               IN  [ok |-> TRUE, num |-> a.num, den |-> a.den])
    /\ UNCHANGED <<heap, sm, trace, sel, pc, top_moves, cand, move_penalty, scores,
                   order, task, result, livePlies, faults>>
    /\ UNCHANGED rank
    /\ UNCHANGED match

\* the samples of the next candidate's simulate_move get the loop
NextCandidate ==
    /\ pc = "evaluating"
    /\ Len(move_scores) = cand
    /\ cand < Len(top_moves)
    /\ cand' = cand + 1
    /\ move_penalty' = MovePenalty(sel.memory, Live, top_moves[cand + 1])
    /\ scores' = PendingSlots
    /\ order' = << >>
    /\ UNCHANGED <<heap, sm, trace, sel, pc, top_moves, move_scores, task, result,
                   livePlies, faults>>
    /\ UNCHANGED rank
    /\ UNCHANGED match

SomeFailure ==
    \/ \E s \in DOMAIN scores : scores[s].st = "failed"
    \/ \E c \in 1..Len(move_scores) : ~move_scores[c].ok

\* gather() hands the first exception to evaluate_moves, asyncio.run cancels
\* what has not run, and play() raises
PlayRaise ==
    /\ pc = "evaluating"
    /\ task.stage = "none"
    /\ SomeFailure
    /\ pc' = "raised"
    /\ scores' = [s \in DOMAIN scores |->
          IF scores[s].st = "pending" THEN [scores[s] EXCEPT !.st = "cancelled"]
          ELSE scores[s]]
    /\ UNCHANGED <<heap, sm, trace, sel, top_moves, cand, move_penalty, order,
                   move_scores, task, result, livePlies, faults>>
    /\ UNCHANGED rank
    /\ UNCHANGED match

\* play() after evaluate_moves: argmax, the memory update, the chosen move
PlayReturn ==
    /\ pc = "evaluating"
    /\ Len(move_scores) = Len(top_moves)
    /\ \A c \in 1..Len(move_scores) : move_scores[c].ok
    /\ LET argmax == ArgMax(move_scores)
       IN  /\ sel' = [sel EXCEPT !.memory =
                        [last_move_piece |-> Game_get_piece(Live, top_moves[argmax].from).type,
                         last_last_move_piece |-> sel.memory.last_move_piece]]
           /\ result' = top_moves[argmax]
    /\ pc' = "returned"
    /\ UNCHANGED <<heap, sm, trace, top_moves, cand, move_penalty, scores, order,
                   move_scores, task, livePlies, faults>>
    /\ UNCHANGED rank
    /\ UNCHANGED match

\* Game.play_engine_move, which asks for a move only while neither flag of
\* the game is set, applies the move play() returned
LiveMove ==
    /\ pc = "returned"
    /\ livePlies < MaxLivePlies
    /\ Live.checkmate = None /\ Live.draw = None
    /\ heap' = [heap EXCEPT ![SourceGame] = Game_move(@, result)]
    /\ livePlies' = livePlies + 1
    /\ pc' = "idle"
    /\ top_moves' = << >>
    /\ cand' = 0
    /\ move_penalty' = 0
    /\ scores' = << >>
    /\ order' = << >>
    /\ move_scores' = << >>
    /\ result' = NoMove
    /\ faults' = 0
    /\ UNCHANGED <<sm, trace, sel, task>>
    /\ UNCHANGED rank
    /\ UNCHANGED match

\* the other side's move, applied with Game.move
OpponentMove ==
    /\ pc = "idle"
    /\ livePlies < MaxLivePlies
    /\ ~Game_is_game_over(Live)
    /\ turn(Live.board) # sel.color
    /\ \E m \in LegalSet(Live.board) :
          heap' = [heap EXCEPT ![SourceGame] = Game_move(@, m)]
    /\ livePlies' = livePlies + 1
    /\ UNCHANGED <<sm, trace, sel, pc, top_moves, cand, move_penalty, scores, order,
                   move_scores, task, result, faults>>
    /\ UNCHANGED rank
    /\ UNCHANGED match

\* Game.play_engine_move for the other side when it is a GreedyAI: asked
\* only while neither flag of the game is set, play() gives its best move,
\* which is applied, and no move makes play_engine_move raise
EngineOpponentMove ==
    /\ pc = "idle"
    /\ livePlies < MaxLivePlies
    /\ Live.checkmate = None /\ Live.draw = None
    /\ turn(Live.board) # sel.color
    /\ rank' = [Ranked(rank, Live, 0 - 1) EXCEPT
                   !.kind = IF @ = "none" THEN "raised" ELSE @]
    /\ IF legal_moves(Live.board) = << >>
       THEN UNCHANGED <<heap, livePlies>>
       ELSE /\ heap' = [heap EXCEPT ![SourceGame] =
                          Game_move(Scored(Live), rank'.moves[1])]
            /\ livePlies' = livePlies + 1
    /\ UNCHANGED <<sm, trace, sel, pc, top_moves, cand, move_penalty, scores, order,
                   move_scores, task, result, faults>>
    /\ UNCHANGED match

Next ==
    \/ PlayStart
    \/ SampleOpen
    \/ SampleCandidate
    \/ SamplePly
    \/ SampleScore
    \/ SampleExit
    \/ SimulateMoveReturn
    \/ NextCandidate
    \/ PlayRaise
    \/ PlayReturn
    \/ LiveMove
    \/ OpponentMove
    \/ EngineOpponentMove

Spec == Init /\ [][Next]_vars

\* ------------------------------------------------------------------------
\* A game between two engines.  It was started with Game.play(white, black)
\* and played on with play_engine_move to a position of the table, or it is
\* started with Game.play(white, black, fen) on a position of the table.
\* Its owner calls play_engine_move and rewind in any order; play_game's
\* loop is the owner that calls play_engine_move until the game is over and
\* then returns.  An engine returns one of the legal moves, or None when
\* there is none.  The owner may also call Game.move with a move of its
\* own, legal or not.
\* ------------------------------------------------------------------------
\* the positions play can have reached with the game still on
OpenPositions ==
    {p \in PosIds : PositionTable(p).moves # << >> /\ ~PositionTable(p).insufficient}

\* what the engine of the side to move returns from play()
EngineAnswers(g) ==
    IF legal_moves(g.board) = << >> THEN {NoMove} ELSE LegalSet(g.board)

InitMatch ==
    /\ \/ \E p \in OpenPositions :
             /\ heap = (SourceGame :> PlayedGame(p))
             /\ match = [NoMatch EXCEPT !.op = "play", !.origin = "start"]
       \/ \E p \in PosIds :
             /\ heap = (SourceGame :>
                         Game_play(Game_init, [pos |-> p, fullmove |-> StartFullmove]))
             /\ match = [NoMatch EXCEPT !.op = "play", !.origin = "fen"]
    /\ sm = NoSimulation
    /\ trace = NoTrace
    /\ sel = GreedyExplorationAI_init(WHITE, ExplorationSize, ExplorationSample).agent
    /\ pc = "idle"
    /\ IdleDecision
    /\ rank = NoRank

\* game.play_engine_move()
PlayEngineMove ==
    /\ match.op # "play_game"
    /\ match.calls < MaxMatchCalls
    /\ \E answer \in EngineAnswers(heap[SourceGame]) :
          LET r == Game_play_engine_move(heap[SourceGame], answer)
          IN  /\ heap' = [heap EXCEPT ![SourceGame] = r.game]
              /\ match' = [match EXCEPT !.op = "play_engine_move", !.calls = @ + 1,
                                        !.raised = r.raised]
    /\ UNCHANGED <<sm, trace, rank>>
    /\ UNCHANGED decisionVars

\* the moves of the table: what Game.move may be called with
TableMoves == UNION {LegalSet([pos |-> p, fullmove |-> 0, stack |-> << >>]) : p \in PosIds}

\* game.move(m)
MatchMove ==
    /\ match.op # "play_game"
    /\ match.calls < MaxMatchCalls
    /\ \E m \in TableMoves :
          LET r == Game_move_call(heap[SourceGame], m)
          IN  /\ heap' = [heap EXCEPT ![SourceGame] = r.game]
              /\ match' = [match EXCEPT !.op = "move", !.calls = @ + 1, !.arg = m,
                                        !.raised = r.raised, !.moved = TRUE]
    /\ UNCHANGED <<sm, trace, rank>>
    /\ UNCHANGED decisionVars

\* game.rewind(nb_moves)
Rewind ==
    /\ match.op # "play_game"
    /\ match.calls < MaxMatchCalls
    /\ \E nb_moves \in 1..Len(heap[SourceGame].board.stack) :
          heap' = [heap EXCEPT ![SourceGame] = Game_rewind(@, nb_moves)]
    /\ match' = [match EXCEPT !.op = "rewind", !.calls = @ + 1, !.raised = None,
                              !.rewound = TRUE]
    /\ UNCHANGED <<sm, trace, rank>>
    /\ UNCHANGED decisionVars

\* play_game: its loop has found the game over, and it returns
PlayGameReturn ==
    /\ match.op # "play_game"
    /\ match.raised = None
    /\ Game_is_game_over(heap[SourceGame])
    /\ match' = [match EXCEPT !.op = "play_game",
                              !.returned = play_game(heap[SourceGame])]
    /\ UNCHANGED <<heap, sm, trace, rank>>
    /\ UNCHANGED decisionVars

NextMatch ==
    \/ PlayEngineMove
    \/ MatchMove
    \/ Rewind
    \/ PlayGameReturn

SpecMatch == InitMatch /\ [][NextMatch]_vars

\* ------------------------------------------------------------------------
\* A stand-alone GreedyAI: an agent with any memory two earlier choices can
\* have left is asked, any number of times, for play(topN) on a loaded game.
\* ------------------------------------------------------------------------
TopNs == (0 - 2)..MaxTopN
\* the piece types of earlier choices: those on the table's boards and one
\* that is on none of them
MemoryPieces == {"N", "Q", "K"}
Memories ==
    {mem \in [last_move_piece : MemoryPieces \cup {None},
              last_last_move_piece : MemoryPieces \cup {None}] :
        mem.last_move_piece = None => mem.last_last_move_piece = None}

InitRank ==
    /\ \E p \in PosIds :
          heap = (SourceGame :>
                    Game_load(Game_init, [pos |-> p, fullmove |-> StartFullmove]))
    /\ \E mem \in Memories : rank = [NoRank EXCEPT !.memory = mem]
    /\ sm = NoSimulation
    /\ trace = NoTrace
    /\ sel = GreedyExplorationAI_init(WHITE, ExplorationSize, ExplorationSample).agent
    /\ pc = "idle"
    /\ IdleDecision
    /\ match = NoMatch

\* GreedyAI.play(topN)
RankMoves ==
    /\ \E topN \in TopNs : rank' = Ranked(rank, Live, topN)
    /\ heap' = [heap EXCEPT ![SourceGame] = Scored(Live)]
    /\ UNCHANGED <<sm, trace>>
    /\ UNCHANGED decisionVars
    /\ UNCHANGED match

NextRank == RankMoves

SpecRank == InitRank /\ [][NextRank]_vars

\* ------------------------------------------------------------------------
\* Claims about the stand-alone Sandbox (checked under SpecSandbox)
\* ------------------------------------------------------------------------
SandboxFen == Game_fen(heap[sm.game])

\* C1 (as claimed): moves applied to the source after the Sandbox was opened
\* do not change the outcome of a later Sandbox operation: whenever reset()
\* has just run, the Sandbox is at the position captured when it was opened,
\* also when the source has been moved in between.
C1_ResetIgnoresSourceMoves ==
    (IsOpen /\ trace.op = "reset") => SandboxFen = trace.open_fen

\* C5: with the source game left untouched since open(), reset() after any
\* sequence of legal moves applied in the Sandbox makes the Sandbox's FEN
\* equal to the FEN it had right after open().
C5_ResetRestoresOpenFen ==
    (IsOpen /\ trace.op = "reset" /\ ~trace.source_moved) => SandboxFen = trace.open_fen

\* C5's case: a reset after the bound's worth of Sandbox moves, source untouched
C5_Witness ==
    /\ IsOpen
    /\ trace.op = "reset"
    /\ ~trace.source_moved
    /\ trace.sandbox_moves = MaxSandboxMoves
    /\ heap[sm.game].board.stack = << >>

\* C6 (as claimed): rollback(name) after checkpoint(name) and any moves
\* completes without error and leaves the Sandbox at the position it had
\* when the checkpoint was taken.
C6_RollbackRestoresCheckpoint ==
    (IsOpen /\ trace.op = "rollback" /\ trace.arg \in DOMAIN trace.taken)
        => (trace.raised = None /\ SandboxFen = trace.taken[trace.arg])

\* ------------------------------------------------------------------------
\* The rollouts of a decision
\* ------------------------------------------------------------------------
Started(s) == scores[s].st \in {"running", "done", "failed"}
SlotValues == [s \in Samples |-> scores[s].v]
Aggregated == pc = "evaluating" /\ cand > 0 /\ Len(move_scores) = cand

\* C2: every Sandbox a rollout sample opened is released (no checkpoint, the
\* clone dropped) once that sample has completed, with a score or with an
\* error, and no Sandbox is open when play() has returned or raised.
C2_SandboxReleasedOnEveryExit ==
    /\ \A s \in DOMAIN scores :
          Finished(s) => CloneOf(cand, s) \notin DOMAIN heap
    /\ task.stage = "none" =>
          /\ sm.game = NoObject
          /\ sm.checkpoints = NoCheckpoints
          /\ DOMAIN heap = {SourceGame}
    /\ pc \in {"returned", "raised", "nomove"} =>
          /\ task.stage = "none"
          /\ DOMAIN heap = {SourceGame}

\* C2's case: play() has raised after one sample returned a score and
\* another failed
C2_Witness ==
    /\ pc = "raised"
    /\ \E s \in DOMAIN scores : scores[s].st = "done"
    /\ \E s \in DOMAIN scores : scores[s].st = "failed"
    /\ sm.initial_game = SourceGame

C4_FailureDoesNotAbortDecision ==
    pc = "raised" => \A c \in 1..Len(move_scores) : ~move_scores[c].ok

\* C7 (as claimed): a rollout sample whose Sandbox ended in stalemate, game
\* over with the draw flag set and no checkmate, returns exactly 0.
C7_StalemateScoresZero ==
    (/\ task.stage = "exit"
     /\ Game_is_game_over(heap[sm.game])
     /\ heap[sm.game].draw = "stalemate"
     /\ heap[sm.game].checkmate = None)
        => task.ret = 0

\* C8: a rollout sample whose Sandbox ended in checkmate returns +1,000,000
\* when the checkmated side, the side to move, is the opponent of the
\* perspective colour and -1,000,000 when it is the perspective colour.
C8_CheckmateScore ==
    (task.stage = "exit" /\ is_checkmate(heap[sm.game].board))
        => task.ret = IF turn(heap[sm.game].board) = sel.color
                      THEN 0 - MateScore ELSE MateScore

\* C8's case: the candidate move was followed by a simulated ply of the
\* other side that mated the perspective colour
C8_Witness ==
    /\ task.stage = "exit"
    /\ is_checkmate(heap[sm.game].board)
    /\ turn(heap[sm.game].board) = sel.color
    /\ Len(heap[sm.game].board.stack) > 1
    /\ task.ret = 0 - MateScore

\* C9: the aggregate of a candidate is the same for every order in which
\* its samples completed: it is the aggregate of every arrangement of the
\* scores the samples returned.
C9_AggregateIgnoresCompletionOrder ==
    (Aggregated /\ move_scores[cand].ok) =>
        \A f \in Permutations(Samples) :
            LET a == Aggregate([i \in Samples |-> scores[f[i]].v], move_penalty)
            IN  move_scores[cand].num = a.num /\ move_scores[cand].den = a.den

\* C9's case: the samples returned different scores and did not complete in
\* slot order
C9_Witness ==
    /\ Aggregated
    /\ move_scores[cand].ok
    /\ \E s, t \in Samples : scores[s].v # scores[t].v
    /\ \E i \in 1..(Len(order) - 1) : order[i] > order[i + 1]

\* C10: a candidate's aggregate is computed when all exploration_sample
\* samples have completed, and is the mean of those scores minus 20 if the
\* candidate's piece type is that of the last chosen move and minus 10 if it
\* is that of the move chosen two decisions back.
C10_AggregateIsMeanMinusPenalty ==
    (Aggregated /\ move_scores[cand].ok) =>
        /\ \A s \in Samples : scores[s].st = "done"
        /\ Len(order) = sel.exploration_sample
        /\ move_scores[cand].den = sel.exploration_sample
        /\ move_scores[cand].num =
              SumSeq(SlotValues)
              - (IF sel.memory.last_move_piece
                      = Game_get_piece(Live, top_moves[cand].from).type
                 THEN 20 * sel.exploration_sample ELSE 0)
              - (IF sel.memory.last_last_move_piece
                      = Game_get_piece(Live, top_moves[cand].from).type
                 THEN 10 * sel.exploration_sample ELSE 0)

\* C10's case: an aggregate under both reductions
C10_Witness ==
    /\ Aggregated
    /\ move_scores[cand].ok
    /\ sel.memory.last_move_piece = Game_get_piece(Live, top_moves[cand].from).type
    /\ sel.memory.last_last_move_piece = Game_get_piece(Live, top_moves[cand].from).type
    /\ move_scores[cand].num = SumSeq(SlotValues) - 30 * sel.exploration_sample

\* ------------------------------------------------------------------------
\* The outcome of a decision
\* ------------------------------------------------------------------------
Maximal(i) == \A j \in 1..Len(move_scores) : ~Less(move_scores[i], move_scores[j])

\* C11: the move play() returns is the candidate of maximal aggregate, and
\* of several candidates of maximal aggregate the first in ranked order.
C11_ReturnsFirstMaximalCandidate ==
    pc = "returned" =>
        \E i \in 1..Len(top_moves) :
            /\ result = top_moves[i]
            /\ Maximal(i)
            /\ \A j \in 1..(i - 1) : ~Maximal(j)

\* C11's case: play() has returned and two candidates share the maximum
C11_Witness ==
    /\ pc = "returned"
    /\ \E i, j \in 1..Len(top_moves) :
          i < j /\ Maximal(i) /\ Maximal(j) /\ result = top_moves[i]

\* C12: when the live position has no legal move, play() gives the no-move
\* result without raising: the ranker's play() returned None, no rollout is
\* launched, no Sandbox is opened, and neither the selector's memory nor its
\* ranker's is changed.
C12_NoLegalMoveGivesNoMove ==
    /\ [](pc = "nomove" =>
            /\ legal_moves(Live.board) = << >>
            /\ result = NoMove
            /\ task = NoTask
            /\ scores = << >>
            /\ DOMAIN heap = {SourceGame})
    /\ [][(pc = "idle" /\ pc' # "idle" /\ legal_moves(Live.board) = << >>) =>
            /\ pc' = "nomove"
            /\ sel'.memory = sel.memory
            /\ sel'.greedy.memory = sel.greedy.memory
            /\ sm' = sm]_vars

\* C12's case: play() was called on a position without a legal move
C12_Witness ==
    /\ pc = "nomove"
    /\ sel.greedy.created
    /\ legal_moves(Live.board) = << >>

\* C13 (as claimed): on a position with exactly one legal move play() ends
\* by returning that move for every value of the exploration parameters,
\* exploration_size zero or negative included (no rules-engine fault
\* occurring).
C13_SingleLegalMoveIsReturned ==
    (/\ pc \in {"returned", "raised", "nomove"}
     /\ Len(legal_moves(Live.board)) = 1
     /\ faults = 0)
        => (pc = "returned" /\ result = legal_moves(Live.board)[1])

\* The selector's choices so far, read off the live game's move stack: the
\* plies of its colour, and the move play() has returned but not yet applied
SelectorPlies ==
    {i \in 1..Len(Live.board.stack) :
        PositionTable(Live.board.stack[i].pos).turn = sel.color}
PlyPiece(i) ==
    LET from == PositionTable(Live.board.stack[i].pos)
        to == IF i < Len(Live.board.stack)
              THEN Live.board.stack[i + 1].pos ELSE Live.board.pos
        mv == CHOOSE m \in {from.moves[k] : k \in 1..Len(from.moves)} : m.target = to
    IN  PieceAt(from, mv.from).type
ChoiceCount == Cardinality(SelectorPlies) + (IF pc = "returned" THEN 1 ELSE 0)
Choice(n) ==
    IF n <= Cardinality(SelectorPlies)
    THEN PlyPiece(CHOOSE i \in SelectorPlies :
                    Cardinality({j \in SelectorPlies : j <= i}) = n)
    ELSE Game_get_piece(Live, result.from).type
RecentChoice(k) == IF ChoiceCount < k THEN None ELSE Choice(ChoiceCount - k + 1)

\* C14: each decision that returns a move sets last_move_piece to the piece
\* type that move moves and last_last_move_piece to the previous
\* last_move_piece, in GreedyExplorationAI.play and in GreedyAI.play's
\* single-best mode alike, so that the selector's memory always holds the
\* piece types of its two most recent choices, None where there are fewer.
C14_MemoryHoldsLastTwoChoices ==
    /\ [](sel.memory = [last_move_piece |-> RecentChoice(1),
                        last_last_move_piece |-> RecentChoice(2)])
    /\ [][/\ (pc = "evaluating" /\ pc' = "returned") =>
                sel'.memory =
                    [last_move_piece |-> Game_get_piece(Live, result'.from).type,
                     last_last_move_piece |-> sel.memory.last_move_piece]
          /\ (rank' # rank /\ rank'.kind = "move") =>
                rank'.memory =
                    [last_move_piece |-> Game_get_piece(Live, rank'.moves[1].from).type,
                     last_last_move_piece |-> rank.memory.last_move_piece]]_vars

\* C14's case: the selector has chosen at least twice and the single-best
\* agent has chosen too
C14_Witness ==
    /\ sel.memory.last_last_move_piece # None
    /\ rank.memory.last_move_piece # None
    /\ ChoiceCount >= 2

\* C15: from the start of a decision until the samples of all candidates
\* have completed, the selector's memory, and that of the ranker it asks for
\* its candidates, is unchanged: no step that begins or continues the
\* evaluation writes it, and the one write of the selector's memory is the
\* step after the argmax, with every candidate aggregated and no sample
\* running.
C15_MemoryUntouchedByRollouts ==
    [][/\ pc' = "evaluating" =>
            /\ sel'.memory = sel.memory
            /\ sel'.greedy.memory = sel.greedy.memory
       /\ sel'.memory # sel.memory =>
            /\ pc = "evaluating" /\ pc' = "returned"
            /\ Len(move_scores) = Len(top_moves)
            /\ task = NoTask]_vars

\* C15's case: a selector with a memory has all its candidates aggregated,
\* rollouts with simulated plies behind it
C15_Witness ==
    /\ pc = "evaluating"
    /\ Len(move_scores) = Len(top_moves)
    /\ Len(top_moves) > 1
    /\ sel.memory # NoMemory
    /\ \A c \in 1..Len(move_scores) : move_scores[c].ok

\* C16: a decision leaves the live game as it found it: every move that
\* get_action_score pushes on the live board is popped before it returns,
\* so no step of play(), from its call to its return or its exception,
\* changes the live game's board, side to move or move stack, and the
\* rollout tasks read the position the decision started on.
C16_DecisionLeavesLivePosition ==
    [][pc' # "idle" => heap'[SourceGame] = heap[SourceGame]]_vars

\* C16's case: play() has ranked and evaluated several candidates on a live
\* game with moves on its stack, and returned
C16_Witness ==
    /\ pc = "returned"
    /\ Len(top_moves) > 1
    /\ Len(Live.board.stack) > 0

\* ------------------------------------------------------------------------
\* The stand-alone GreedyAI's play(topN)
\* ------------------------------------------------------------------------
Legal == legal_moves(Live.board)
\* get_action_score of the i-th legal move, with the memory the agent had
ScoreOf(i) == get_action_score(Live, rank.asked, Legal[i])
Asked == rank.kind # "idle"

\* C17: play(topN) with a negative topN returns exactly one move, a legal
\* move whose get_action_score is maximal over the legal moves, and of
\* several such moves the first in the rules engine's enumeration order.
C17_SingleBestIsFirstMaximum ==
    (Asked /\ rank.topN < 0 /\ Legal # << >>) =>
        /\ rank.kind = "move"
        /\ Len(rank.moves) = 1
        /\ \E i \in 1..Len(Legal) :
              /\ rank.moves[1] = Legal[i]
              /\ \A j \in 1..Len(Legal) : ScoreOf(j) <= ScoreOf(i)
              /\ \A j \in 1..(i - 1) : ScoreOf(j) < ScoreOf(i)

\* C17's case: play(-1) on a position where two legal moves share the
\* maximal score
C17_Witness ==
    /\ Asked
    /\ rank.topN = 0 - 1
    /\ \E i, j \in 1..Len(Legal) :
          /\ i < j
          /\ ScoreOf(i) = ScoreOf(j)
          /\ \A k \in 1..Len(Legal) : ScoreOf(k) <= ScoreOf(i)
          /\ rank.moves = << Legal[i] >>

\* the place of the r-th returned move in the enumeration of the legal moves
IndexOf(r) == CHOOSE i \in 1..Len(Legal) : Legal[i] = rank.moves[r]
Returned == {IndexOf(r) : r \in 1..Len(rank.moves)}

\* C18: play(N) with 1 <= N < the number of legal moves returns exactly N
\* distinct legal moves in descending order of get_action_score, moves of
\* equal score in enumeration order, and no move left out scores higher
\* than a returned one.
C18_TopNIsSortedPrefix ==
    (Asked /\ rank.topN >= 1 /\ rank.topN < Len(Legal)) =>
        /\ rank.kind = "list"
        /\ Len(rank.moves) = rank.topN
        /\ \A r \in 1..Len(rank.moves) : \E i \in 1..Len(Legal) : Legal[i] = rank.moves[r]
        /\ \A r, q \in 1..Len(rank.moves) :
              r < q =>
                 \/ ScoreOf(IndexOf(r)) > ScoreOf(IndexOf(q))
                 \/ /\ ScoreOf(IndexOf(r)) = ScoreOf(IndexOf(q))
                    /\ IndexOf(r) < IndexOf(q)
        /\ \A j \in (1..Len(Legal)) \ Returned :
              \A r \in 1..Len(rank.moves) : ScoreOf(j) <= ScoreOf(IndexOf(r))

\* C18's case: play(2) on a position with three legal moves, the two
\* returned ones of equal score
C18_Witness ==
    /\ Asked
    /\ rank.topN = 2
    /\ Len(Legal) = 3
    /\ Len(rank.moves) = 2
    /\ ScoreOf(IndexOf(1)) = ScoreOf(IndexOf(2))

\* C19 (as claimed): only a negative topN makes play() return the single
\* best move; for every topN >= 0 on a position with legal moves it returns
\* a sequence of at most topN moves, so that play(0) returns the empty
\* sequence and leaves the memory as it was.
C19_ZeroTopNGivesEmptySequence ==
    (Asked /\ rank.topN >= 0 /\ Legal # << >>) =>
        /\ rank.kind = "list"
        /\ Len(rank.moves) <= rank.topN
        /\ rank.topN = 0 => rank.memory = rank.asked

Mates(i) == Checkmate(PositionTable(Legal[i].target))

\* C20: in every position and with every memory, a legal move that gives
\* checkmate has a get_action_score strictly greater than that of every
\* legal move of the position that does not.
C20_MateOutscoresEveryOtherMove ==
    Asked =>
        \A i, j \in 1..Len(Legal) :
            (Mates(i) /\ ~Mates(j)) => ScoreOf(i) > ScoreOf(j)

\* C20's case: a position with a mating and a non-mating move, scored by an
\* agent whose memory holds the mating piece twice
C20_Witness ==
    /\ Asked
    /\ \E i, j \in 1..Len(Legal) :
          /\ Mates(i)
          /\ ~Mates(j)
          /\ rank.asked.last_move_piece = PieceAt(Pos(Live.board), Legal[i].from).type
          /\ rank.asked.last_last_move_piece = PieceAt(Pos(Live.board), Legal[i].from).type
          /\ ScoreOf(i) > ScoreOf(j)

\* ------------------------------------------------------------------------
\* C21: an agent whose exploration_sample is odd is rejected at construction
\* with a configuration error, before any position is evaluated: it never
\* creates its GreedyAI, never opens a Sandbox and never scores a candidate,
\* so no decision runs with an odd exploration_sample.
\* ------------------------------------------------------------------------
C21_OddSampleRejectedAtConstruction ==
    sel.exploration_sample % 2 # 0 =>
        /\ pc = "rejected"
        /\ ~sel.greedy.created
        /\ DOMAIN heap = {SourceGame}
        /\ Live.board.stack = << >>
        /\ top_moves = << >> /\ scores = << >> /\ move_scores = << >>
        /\ task = NoTask /\ sm = NoSimulation

C21_Witness ==
    /\ sel.exploration_sample % 2 # 0
    /\ pc = "rejected"

\* ------------------------------------------------------------------------
\* C22: Simulation.run never applies a move to a Sandbox whose game is
\* already over: every move that run applies is applied to a Sandbox whose
\* is_game_over() is false, also the first one after the candidate move.
\* ------------------------------------------------------------------------
C22_RunNeverMovesTerminalSandbox ==
    [][(/\ task.stage = "run"
        /\ Len(heap'[sm.game].board.stack) > Len(heap[sm.game].board.stack))
       => ~Game_is_game_over(heap[sm.game])]_vars

\* ------------------------------------------------------------------------
\* C23: Simulation.run with the bounded depth D = ExplorationDepth applies at
\* most D moves to the Sandbox (the Sandbox's move stack, one long after the
\* candidate move, never exceeds 1 + D), and when the agent of the side to
\* move has no move to return, run returns at once: no exception, and the
\* Sandbox's game is left as it was.
\* ------------------------------------------------------------------------
C23_BoundedRunStopsAndNoMoveReturns ==
    /\ [](task.stage \in {"run", "score", "exit"}
            => Len(heap[sm.game].board.stack) <= 1 + ExplorationDepth)
    /\ [][(task.stage = "run" /\ legal_moves(heap[sm.game].board) = << >>)
            => (task'.stage = "score" /\ heap' = heap /\ sm' = sm)]_vars

\* run used all D iterations: the range stopped it, not the end of the game
C23_Witness ==
    /\ task.stage = "score"
    /\ Len(heap[sm.game].board.stack) = 1 + ExplorationDepth
    /\ ~Game_is_game_over(heap[sm.game])

\* ------------------------------------------------------------------------
\* C24: after reset() the Sandbox's cached flags are those it had right
\* after it was opened: the same checkmate, the same truth value of draw,
\* the same king_in_check and the same last_player, for every source game
\* that has not been moved since, also one that was over when the Sandbox
\* was opened.
\* ------------------------------------------------------------------------
C24_ResetRestoresOpenFlags ==
    (trace.op = "reset" /\ ~trace.source_moved) =>
        /\ heap[sm.game].checkmate = trace.open_flags.checkmate
        /\ Truthy(heap[sm.game].draw) = Truthy(trace.open_flags.draw)
        /\ heap[sm.game].king_in_check = trace.open_flags.king_in_check
        /\ heap[sm.game].last_player = trace.open_flags.last_player

\* ------------------------------------------------------------------------
\* C25: play_game on a game started without a FEN and driven by
\* play_engine_move alone returns 1 exactly when white has delivered
\* checkmate, 2 exactly when black has, and 0 exactly when the game ended
\* without a checkmate.
\* ------------------------------------------------------------------------
C25_PlayGameReportsTheWinner ==
    (match.op = "play_game" /\ match.origin = "start" /\ ~match.rewound /\ ~match.moved) =>
        /\ match.returned = 1 <=> (is_checkmate(Live.board) /\ turn(Live.board) = BLACK)
        /\ match.returned = 2 <=> (is_checkmate(Live.board) /\ turn(Live.board) = WHITE)
        /\ match.returned = 0 <=> ~is_checkmate(Live.board)

\* ------------------------------------------------------------------------
\* C30: whenever is_game_over() is false and the engine of the side to move
\* has a legal move, a call of play_engine_move applies exactly one move, so
\* a loop that calls it until is_game_over() makes progress at every
\* iteration: in a game started without a FEN, in a game started from a
\* FEN and after rewind().
\* ------------------------------------------------------------------------
C30_PlayEngineMoveMakesProgress ==
    [][(/\ match'.op = "play_engine_move"
        /\ match'.calls = match.calls + 1
        /\ ~Game_is_game_over(Live)
        /\ legal_moves(Live.board) # << >>)
       => Len(Live'.board.stack) = Len(Live.board.stack) + 1]_vars

\* ------------------------------------------------------------------------
\* C26: at every decision the ranking of the candidates is made with the
\* memory the selector updated at its earlier decisions: once the selector
\* has chosen a move, the memory its GreedyAI scores with at the next call
\* of play() is the selector's memory, and so is not empty.
\* ------------------------------------------------------------------------
C26_RankerUsesSelectorMemory ==
    [][(/\ pc = "idle"
        /\ pc' \in {"evaluating", "nomove", "raised"}
        /\ sel.memory # NoMemory)
       => (sel.greedy.memory = sel.memory /\ sel.greedy.memory # NoMemory)]_vars

\* the opponent king's legal moves before the i-th legal move (b) and after
\* it (a), and the score of the move without a mobility bonus
FlightsBefore(i) == Cardinality(KingFlights(Pos(Live.board), Not(turn(Live.board))))
FlightsAfter(i) == Cardinality(KingFlights(PositionTable(Legal[i].target), Not(turn(Live.board))))
CountedAfter(i) ==
    Cardinality(MovesFrom(PositionTable(Legal[i].target),
                          KingOf(PositionTable(Legal[i].target), Not(turn(Live.board)))))
ScoreBeforeBonus(i) ==
    ( IF Stalemate(PositionTable(Legal[i].target))
      THEN StaticScore(Pos(Live.board), Live.board.fullmove, rank.asked, Legal[i],
                       Game_get_piece(Live, Legal[i].from).type, turn(Live.board)) - MateScore * Unit
      ELSE StaticScore(Pos(Live.board), Live.board.fullmove, rank.asked, Legal[i],
                       Game_get_piece(Live, Legal[i].from).type, turn(Live.board)) )
    + (IF PositionTable(Legal[i].target).check THEN 3 * Unit ELSE 0)

\* C27: a move that does not mate and lowers the number of legal moves of
\* the opponent king from b before the move to a after it, b > a, scores
\* higher by a bonus proportional to b - a, 5 for each move taken away, and
\* by 1 more for each when the move gives check.  (Stated for the moves
\* after which the table lists every move of the opponent king.)
C27_MobilityReductionIsRewarded ==
    Asked =>
        \A i \in 1..Len(Legal) :
            (/\ ~Mates(i)
             /\ CountedAfter(i) = FlightsAfter(i)
             /\ FlightsBefore(i) > FlightsAfter(i))
            => ScoreOf(i) = ScoreBeforeBonus(i)
                  + (FlightsBefore(i) - FlightsAfter(i)) * 5 * Unit
                  + (IF PositionTable(Legal[i].target).check
                     THEN (FlightsBefore(i) - FlightsAfter(i)) * Unit ELSE 0)

\* what single_simulation adds to get_score for the candidate m: the edge
\* penalty and the castling bonuses
SampleAdjustment(live, m) ==
    (IF /\ BB_EDGE(m.to)
        /\ Game_get_piece(live, m.from).type # "B"
        /\ Game_get_piece(live, m.to) = NoPiece
     THEN 0 - 100 ELSE 0)
    + (IF m.from = 4 /\ m.to \in {6, 2} THEN 200 ELSE 0)
    + (IF m.from = 60 /\ m.to \in {62, 58} THEN 200 ELSE 0)

\* C28: for a rollout sample that ends in a position that is not over, the
\* position score subtracts 2 for each legal move the opposing king has in
\* the Sandbox's final position, not in the live position: the sample's
\* value is the score of the Sandbox's position with the king's moves
\* counted there, plus the candidate's adjustments.
C28_KingMovesCountedInSandbox ==
    (task.stage = "exit" /\ ~Game_is_game_over(heap[sm.game])) =>
        task.ret = get_score(sel.color, heap[sm.game], heap[sm.game])
                     + SampleAdjustment(Live, top_moves[cand])

\* ------------------------------------------------------------------------
\* C29: Game.move called with a move that is not legal in the current
\* position raises, and leaves the game as it was: the same board,
\* checkmate, draw, king_in_check, last_player and winner.
\* ------------------------------------------------------------------------
C29_IllegalMoveRaisesAndChangesNothing ==
    [][(/\ match'.op = "move"
        /\ match'.calls = match.calls + 1
        /\ match'.arg \notin LegalSet(Live.board))
       => (/\ match'.raised = "Exception"
           /\ Live'.board = Live.board
           /\ Live'.checkmate = Live.checkmate
           /\ Live'.draw = Live.draw
           /\ Live'.king_in_check = Live.king_in_check
           /\ Live'.last_player = Live.last_player
           /\ Live'.winner = Live.winner)]_vars

\* an illegal move was refused on a game that had moves made on it
C29_Witness ==
    /\ match.op = "move"
    /\ match.raised = "Exception"
    /\ match.arg \notin LegalSet(Live.board)
    /\ Live.board.stack # << >>

====
